---- MODULE Spec2Model ----
(***************************************************************************)
(* A model of BloomFilterHW.py: the BloomFilter class (sizing at           *)
(* construction, insert, find, falsePositiveRate, numBitsSet).             *)
(*                                                                         *)
(* One BloomFilter object is modelled.  The client first calls the         *)
(* constructor, which either raises or yields a filter, and then calls     *)
(* the four methods in any order with any keys.  The program is single    *)
(* threaded, so every call is one atomic step.                              *)
(*                                                                         *)
(* Floating point values are modelled as exact rationals <<num, den>>;     *)
(* the rounding of Python floats is not modelled, with one exception: the  *)
(* power in falsePositiveRate underflows to 0.0 below the range of a       *)
(* double, which FloatRateClass models.                                    *)
(***************************************************************************)
EXTENDS Integers, FiniteSets, Sequences

VARIABLES
    pc,          \* "new" before __init__, "ready" once it returned, "raised" if it raised
                 \* ("big" under SpecFloat: see big)
    args,        \* the arguments __init__ was called with (<<>> before the call)
    err,         \* the exception __init__ raised ("none" if it did not)
    vector,      \* self.__vector: position -> bit
    numHashes,   \* self.__numHashes
    inserted,    \* self.__inserted
    op,          \* the last method call: its name, its key, what it returned
    insertCalls, \* whether insert has been called on the filter
    inserts,     \* under SpecCount: how many times, counted up to MaxInserts
                 \* ("MaxInserts or more"); 0 under the other specifications
    big          \* under SpecFloat: a filter too large to hold bit by bit,
                 \* known by its length, set bits and hash count, and what
                 \* falsePositiveRate returned on it; NoBig otherwise

vars == <<pc, args, err, vector, numHashes, inserted, op, insertCalls, inserts, big>>

(***************************************************************************)
(* Bounds of the model.  Under Spec the constructor's arguments are drawn   *)
(* from numKeys >= 0, numHashes >= 0 and 0 <= maxFalsePositive <= 1.       *)
(* Under SpecWide maxFalsePositive is drawn from 0 to MaxRate.  Negative   *)
(* arguments are not drawn.                                                *)
(***************************************************************************)
MaxNumKeys == 2      \* numKeys is drawn from 0..MaxNumKeys
MaxNumHashes == 2    \* numHashes is drawn from 0..MaxNumHashes
PDen == 2            \* maxFalsePositive is drawn from {0/PDen, ..., PDen/PDen}
MaxHash == 2         \* BitHash returns values in 0..MaxHash
MaxInserts == 3      \* SpecCount: calls of insert are counted up to MaxInserts
MaxRate == 2         \* SpecWide: maxFalsePositive is drawn from {0/PDen, ..., MaxRate}
MaxLogBits == 29     \* SpecFloat: a large filter has 2^k bits, k in 0..MaxLogBits
MaxBigHashes == 48   \* SpecFloat: a large filter has 1..MaxBigHashes hash functions

(***************************************************************************)
(* External collaborators.                                                 *)
(***************************************************************************)

\* BitVector(size = n): n bits, all 0, indexed 0..n-1.
BitVector(size) == [p \in 0..(size - 1) |-> 0]

\* len(bitvector)
len(vec) == Cardinality(DOMAIN vec)

\* A key is opaque to the filter, which only ever looks at BitHash(key, i)
\* for i in 1..numHashes.  A key is therefore represented by the values the
\* hash family gives it: key[i] is BitHash(key, i).  Drawing keys from all
\* such tuples covers every deterministic hash family with values in
\* 0..MaxHash.
Keys(d) == [1..d -> 0..MaxHash]

BitHash(key, i) == key[i]

(***************************************************************************)
(* __bitsNeeded                                                            *)
(***************************************************************************)
RECURSIVE Pow(_, _)
Pow(b, e) == IF e = 0 THEN 1 ELSE b * Pow(b, e - 1)

\* Whether N <= numHashes / (1 - phi^(1/numKeys)) with
\* phi = 1 - P^(1/numHashes) and P = pn/pd in (0, 1], for N >= numHashes:
\*     N * (1 - phi^(1/n)) <= d
\* <=> phi >= ((N - d)/N)^n
\* <=> P^(1/d) <= 1 - ((N - d)/N)^n
\* <=> pn * (N^n)^d <= pd * (N^n - (N - d)^n)^d
AtMostQuotient(N, numKeys, numHashesArg, pn, pd) ==
    pn * Pow(N, numKeys * numHashesArg)
        <= pd * Pow(Pow(N, numKeys) - Pow(N - numHashesArg, numKeys), numHashesArg)

\* Whether N >= numHashes / (1 - phi^(1/numKeys)), likewise, for
\* N >= numHashes.
AtLeastQuotient(N, numKeys, numHashesArg, pn, pd) ==
    pn * Pow(N, numKeys * numHashesArg)
        >= pd * Pow(Pow(N, numKeys) - Pow(N - numHashesArg, numKeys), numHashesArg)

\* math.ceil(x) in place of int(x): the smallest N with N >= x.
RECURSIVE CeilFrom(_, _, _, _, _)
CeilFrom(N, numKeys, numHashesArg, pn, pd) ==
    IF AtLeastQuotient(N, numKeys, numHashesArg, pn, pd)
    THEN N
    ELSE CeilFrom(N + 1, numKeys, numHashesArg, pn, pd)

\* int(x) for the positive quotient x: the largest N with N <= x.
RECURSIVE TruncFrom(_, _, _, _, _)
TruncFrom(N, numKeys, numHashesArg, pn, pd) ==
    IF AtMostQuotient(N + 1, numKeys, numHashesArg, pn, pd)
    THEN TruncFrom(N + 1, numKeys, numHashesArg, pn, pd)
    ELSE N

\* __bitsNeeded(numKeys, numHashes, maxFalsePositive) with
\* maxFalsePositive = pn/pd >= 0 and numKeys, numHashes >= 0.
\*   numHashes = 0: 1/numHashes raises ZeroDivisionError (line 14);
\*   numKeys = 0:   1/numKeys raises ZeroDivisionError (line 15);
\*   pn = 0:        phi = 1, 1 - phi**(1/numKeys) = 0 and the division
\*                  raises ZeroDivisionError (line 15);
\*   pn > pd:       phi < 0.  With numKeys >= 2, phi**(1/numKeys) is a
\*                  complex number and int() raises TypeError (line 15).
\*                  With numKeys = 1, phi**1.0 = phi and the quotient is
\*                  numHashes / P^(1/numHashes), below numHashes, which
\*                  int() truncates;
\*   otherwise int(...) truncates the quotient, which is >= numHashes.
bitsNeeded(numKeys, numHashesArg, pn, pd) ==
    IF numHashesArg = 0 \/ numKeys = 0 \/ pn = 0
    THEN [raised |-> "ZeroDivisionError", value |-> 0]
    ELSE IF pn > pd
    THEN IF numKeys >= 2
         THEN [raised |-> "TypeError", value |-> 0]
         ELSE [raised |-> "none",
               value |-> TruncFrom(0, numKeys, numHashesArg, pn, pd)]
    ELSE [raised |-> "none",
          value |-> TruncFrom(numHashesArg, numKeys, numHashesArg, pn, pd)]

(***************************************************************************)
(* State                                                                   *)
(***************************************************************************)
\* The count of insert calls, which stops at MaxInserts.
CountedUpTo(m) == IF m < MaxInserts THEN m ELSE MaxInserts

NoCall == [name |-> "none", key |-> <<>>, ret |-> "None"]

NoBig == [len |-> 0, inserted |-> 0, numHashes |-> 0, ret |-> "None"]

Init ==
    /\ pc = "new"
    /\ args = <<>>
    /\ err = "none"
    /\ vector = <<>>
    /\ numHashes = 0
    /\ inserted = 0
    /\ op = NoCall
    /\ insertCalls = FALSE
    /\ inserts = 0
    /\ big = NoBig

\* __init__(numKeys, numHashes, maxFalsePositive), maxFalsePositive = pn/PDen
Construct(numKeys, numHashesArg, pn) ==
    /\ pc = "new"
    /\ args' = <<numKeys, numHashesArg, pn>>
    /\ LET size == bitsNeeded(numKeys, numHashesArg, pn, PDen) IN
         IF size.raised # "none"
         THEN /\ pc' = "raised"
              /\ err' = size.raised
              /\ UNCHANGED <<vector, numHashes, inserted>>
         ELSE /\ pc' = "ready"
              /\ err' = "none"
              /\ vector' = BitVector(size.value)
              /\ numHashes' = numHashesArg
              /\ inserted' = 0
    /\ UNCHANGED <<op, insertCalls, inserts, big>>

\* The index insert and find use without the reduction modulo the length.
HashedUnreduced(vec, key, i) == BitHash(key, i)

\* hashed = BitHash(key, i) % len(self.__vector): lines 34 and 48.
Hashed(vec, key, i) == BitHash(key, i) % len(vec)

(***************************************************************************)
(* insert                                                                  *)
(***************************************************************************)

\* insert with range(1, numHashes): the last hash index is never visited.
RECURSIVE InsertLoopSkipsLast(_, _, _, _, _)
InsertLoopSkipsLast(vec, count, key, i, d) ==
    IF i >= d
    THEN [vector |-> vec, inserted |-> count]
    ELSE LET hashed == BitHash(key, i) % len(vec) IN
         IF vec[hashed] = 0
         THEN InsertLoopSkipsLast([vec EXCEPT ![hashed] = 1], count + 1, key, i + 1, d)
         ELSE InsertLoopSkipsLast(vec, count, key, i + 1, d)

\* insert with "self.__vector[hashed] == 1" for the assignment: the bit is
\* counted and never set.
RECURSIVE InsertLoopNeverSets(_, _, _, _, _)
InsertLoopNeverSets(vec, count, key, i, d) ==
    IF i > d
    THEN [vector |-> vec, inserted |-> count]
    ELSE LET hashed == BitHash(key, i) % len(vec) IN
         IF vec[hashed] = 0
         THEN InsertLoopNeverSets(vec, count + 1, key, i + 1, d)
         ELSE InsertLoopNeverSets(vec, count, key, i + 1, d)

\* insert without the test of line 38: every visited position is counted.
RECURSIVE InsertLoopCountsAll(_, _, _, _, _)
InsertLoopCountsAll(vec, count, key, i, d) ==
    IF i > d
    THEN [vector |-> vec, inserted |-> count]
    ELSE LET hashed == BitHash(key, i) % len(vec) IN
         InsertLoopCountsAll([vec EXCEPT ![hashed] = 1], count + 1, key, i + 1, d)

\* insert that leaves the loop at the first position already set.
RECURSIVE InsertLoopShortCircuits(_, _, _, _, _)
InsertLoopShortCircuits(vec, count, key, i, d) ==
    IF i > d
    THEN [vector |-> vec, inserted |-> count]
    ELSE LET hashed == BitHash(key, i) % len(vec) IN
         IF vec[hashed] = 0
         THEN InsertLoopShortCircuits([vec EXCEPT ![hashed] = 1], count + 1, key, i + 1, d)
         ELSE [vector |-> vec, inserted |-> count]

\* The loop of insert from hash index i on: lines 33-40.
RECURSIVE InsertLoop(_, _, _, _, _)
InsertLoop(vec, count, key, i, d) ==
    IF i > d
    THEN [vector |-> vec, inserted |-> count]
    ELSE LET hashed == Hashed(vec, key, i) IN
         IF vec[hashed] = 0
         THEN InsertLoop([vec EXCEPT ![hashed] = 1], count + 1, key, i + 1, d)
         ELSE InsertLoop(vec, count, key, i + 1, d)

\* insert with "self.__numHashes += 1" for line 39: the bits it sets are
\* counted in the wrong attribute.
InsertCountsInNumHashes(key) ==
    /\ pc = "ready"
    /\ LET after == InsertLoop(vector, inserted, key, 1, numHashes) IN
         /\ vector' = after.vector
         /\ numHashes' = numHashes + (after.inserted - inserted)
    /\ op' = [name |-> "insert", key |-> key, ret |-> "None"]
    /\ insertCalls' = TRUE
    /\ UNCHANGED <<pc, args, err, inserted, inserts, big>>

\* On a vector of length 0 the modulo of line 34 raises ZeroDivisionError in
\* the first pass of the loop, before anything is changed.
InsertCall(key) ==
    /\ pc = "ready"
    /\ IF numHashes >= 1 /\ len(vector) = 0
       THEN /\ op' = [name |-> "insert", key |-> key,
                      ret |-> "ZeroDivisionError"]
            /\ UNCHANGED <<vector, inserted>>
       ELSE /\ LET after == InsertLoop(vector, inserted, key, 1, numHashes) IN
                 /\ vector' = after.vector
                 /\ inserted' = after.inserted
            /\ op' = [name |-> "insert", key |-> key, ret |-> "None"]
    /\ insertCalls' = TRUE
    /\ UNCHANGED <<pc, args, err, numHashes, big>>

Insert(key) ==
    /\ InsertCall(key)
    /\ UNCHANGED inserts

\* insert, with the call counted.
InsertCounted(key) ==
    /\ InsertCall(key)
    /\ inserts' = CountedUpTo(inserts + 1)

(***************************************************************************)
(* find                                                                    *)
(***************************************************************************)

\* find with range(1, numHashes): the last hash index is never tested.
RECURSIVE FindLoopSkipsLast(_, _, _, _)
FindLoopSkipsLast(vec, key, i, d) ==
    IF i >= d
    THEN TRUE
    ELSE LET hashed == BitHash(key, i) % len(vec) IN
         IF vec[hashed] = 0 THEN FALSE ELSE FindLoopSkipsLast(vec, key, i + 1, d)

\* find with the test inverted: True at the first position set, False if
\* none is.
RECURSIVE FindLoopAnySet(_, _, _, _)
FindLoopAnySet(vec, key, i, d) ==
    IF i > d
    THEN FALSE
    ELSE LET hashed == BitHash(key, i) % len(vec) IN
         IF vec[hashed] = 1 THEN TRUE ELSE FindLoopAnySet(vec, key, i + 1, d)

\* The loop of find from hash index i on: lines 47-50.
RECURSIVE FindLoop(_, _, _, _)
FindLoop(vec, key, i, d) ==
    IF i > d
    THEN TRUE
    ELSE LET hashed == Hashed(vec, key, i) IN
         IF vec[hashed] = 0 THEN FALSE ELSE FindLoop(vec, key, i + 1, d)

\* find that marks the positions it tests, as insert does.
FindMarks(key) ==
    /\ pc = "ready"
    /\ op' = [name |-> "find", key |-> key,
              ret |-> FindLoop(vector, key, 1, numHashes)]
    /\ LET after == InsertLoop(vector, inserted, key, 1, numHashes) IN
         /\ vector' = after.vector
         /\ inserted' = after.inserted
    /\ UNCHANGED <<pc, args, err, numHashes, insertCalls, inserts, big>>

\* On a vector of length 0 the modulo of line 48 raises ZeroDivisionError.
Find(key) ==
    /\ pc = "ready"
    /\ op' = [name |-> "find", key |-> key,
              ret |-> IF numHashes >= 1 /\ len(vector) = 0
                      THEN "ZeroDivisionError"
                      ELSE FindLoop(vector, key, 1, numHashes)]
    /\ UNCHANGED <<pc, args, err, vector, numHashes, inserted, insertCalls, inserts, big>>

(***************************************************************************)
(* falsePositiveRate, numBitsSet                                           *)
(***************************************************************************)

\* Rationals <<num, den>> with den > 0.
RatSub(a, b) == <<a[1] * b[2] - b[1] * a[2], a[2] * b[2]>>
RatPow(a, e) == <<Pow(a[1], e), Pow(a[2], e)>>
RatEq(a, b) == a[1] * b[2] = b[1] * a[2]
RatLeq(a, b) == a[1] * b[2] <= b[1] * a[2]

\* falsePositiveRate with phi taken as the proportion of bits that are set.
FalsePositiveRateOfSetBits(vec, count, d) ==
    LET phi == <<count, len(vec)>> IN
    RatPow(RatSub(<<1, 1>>, phi), d)

\* lines 60-61
FalsePositiveRateValue(vec, count, d) ==
    LET phi == <<len(vec) - count, len(vec)>> IN
    RatPow(RatSub(<<1, 1>>, phi), d)

\* falsePositiveRate that computes the number of zero bits in place, in
\* self.__inserted.
FalsePositiveRateStoresZeros ==
    /\ pc = "ready"
    /\ op' = [name |-> "falsePositiveRate", key |-> <<>>,
              ret |-> FalsePositiveRateValue(vector, inserted, numHashes)]
    /\ inserted' = len(vector) - inserted
    /\ UNCHANGED <<pc, args, err, vector, numHashes, insertCalls, inserts, big>>

\* On a vector of length 0 the division of line 60 raises ZeroDivisionError.
FalsePositiveRate ==
    /\ pc = "ready"
    /\ op' = [name |-> "falsePositiveRate", key |-> <<>>,
              ret |-> IF len(vector) = 0
                      THEN "ZeroDivisionError"
                      ELSE FalsePositiveRateValue(vector, inserted, numHashes)]
    /\ UNCHANGED <<pc, args, err, vector, numHashes, inserted, insertCalls, inserts, big>>

\* line 67
NumBitsSetValue(count) == count

NumBitsSet ==
    /\ pc = "ready"
    /\ op' = [name |-> "numBitsSet", key |-> <<>>,
              ret |-> NumBitsSetValue(inserted)]
    /\ UNCHANGED <<pc, args, err, vector, numHashes, inserted, insertCalls, inserts, big>>

(***************************************************************************)
(* falsePositiveRate in double precision                                   *)
(*                                                                         *)
(* With N = len(self.__vector), c = self.__inserted and d = numHashes the  *)
(* method computes phi = (N - c)/N and returns (1 - phi)**d in doubles:    *)
(*   c = N:      phi = 0.0, and 1.0**d = 1.0;                              *)
(*   c = 0:      phi = 1.0, and 0.0**d = 0.0 (d >= 1);                     *)
(*   0 < c < N:  0 < 1 - phi < 1 (N is far below 2^53), and the power is   *)
(*               below 1; it is 0.0 when its value is below the smallest   *)
(*               positive double, 2^-DoubleMinExponent.                    *)
(* FloatRateClass tells which of "zero", "between" (strictly between 0 and *)
(* 1) and "one" the returned double is.  With L = floor(log2(N/c)) the     *)
(* value is at most 2^-(L*d), up to a rounding factor below 2; the class   *)
(* is "zero" only where that bound is at most 2^-(DoubleMinExponent + 2),  *)
(* a quarter of the smallest positive double, so that every input the      *)
(* model calls "zero" does return 0.0.  Inputs closer to the edge of the   *)
(* range are called "between" although some of them return 0.0 as well.    *)
(***************************************************************************)
DoubleMinExponent == 1074

RECURSIVE Log2Floor(_)
Log2Floor(q) == IF q < 2 THEN 0 ELSE 1 + Log2Floor(q \div 2)

FloatRateClass(N, count, d) ==
    IF count = N THEN "one"
    ELSE IF count = 0 THEN "zero"
    ELSE IF Log2Floor(N \div count) * d >= DoubleMinExponent + 3
         THEN "zero"
         ELSE "between"

\* falsePositiveRate() on a filter of N = 2^k bits with d hash functions and
\* count bits set.  Every N >= d >= 1 is the length of a filter built from
\* valid arguments (the quotient of __bitsNeeded runs from d to infinity as
\* maxFalsePositive runs from 1 down to 0), and count is what one insert can
\* leave (1..d bits), none, or all N.
FalsePositiveRateOnBig(N, count, d) ==
    /\ pc = "new"
    /\ d <= N
    /\ count <= N
    /\ pc' = "big"
    /\ big' = [len |-> N, inserted |-> count, numHashes |-> d,
               ret |-> FloatRateClass(N, count, d)]
    /\ UNCHANGED <<args, err, vector, numHashes, inserted, op, insertCalls, inserts>>

Next ==
    \/ \E n \in 0..MaxNumKeys, d \in 0..MaxNumHashes, pn \in 0..PDen :
           Construct(n, d, pn)
    \/ \E key \in Keys(numHashes) : Insert(key)
    \/ \E key \in Keys(numHashes) : Find(key)
    \/ FalsePositiveRate
    \/ NumBitsSet

Spec == Init /\ [][Next]_vars

\* The same program with maxFalsePositive also drawn above 1.
NextWide ==
    \/ \E n \in 0..MaxNumKeys, d \in 0..MaxNumHashes, pn \in 0..(MaxRate * PDen) :
           Construct(n, d, pn)
    \/ \E key \in Keys(numHashes) : Insert(key)
    \/ \E key \in Keys(numHashes) : Find(key)
    \/ FalsePositiveRate
    \/ NumBitsSet

SpecWide == Init /\ [][NextWide]_vars

\* The constructor followed by calls of insert, which are counted.
NextCount ==
    \/ \E n \in 0..MaxNumKeys, d \in 0..MaxNumHashes, pn \in 0..PDen :
           Construct(n, d, pn)
    \/ \E key \in Keys(numHashes) : InsertCounted(key)

SpecCount == Init /\ [][NextCount]_vars

\* The program, and falsePositiveRate on filters too large to hold bit by bit.
NextFloat ==
    \/ Next
    \/ /\ pc = "new"
       /\ \E k \in 0..MaxLogBits, d \in 1..MaxBigHashes :
              \E count \in (0..d) \cup {Pow(2, k)} :
                  FalsePositiveRateOnBig(Pow(2, k), count, d)

SpecFloat == Init /\ [][NextFloat]_vars

(***************************************************************************)
(* Properties                                                              *)
(***************************************************************************)

\* The positions that hold 1.
Ones(vec) == {p \in DOMAIN vec : vec[p] = 1}

\* The positions insert and find compute for a key.
Positions(key, d, N) == {BitHash(key, i) % N : i \in 1..d}

\* What find(key) returns in the current state.
Found(key) == FindLoop(vector, key, 1, numHashes)

\* C1: no false negatives.  find(k) returns True in the state insert(k)
\* returns in, and a key that find reports present is still reported present
\* after any further step that changes the bit vector (find reads nothing
\* else but numHashes, which no step changes once the filter is built); so
\* find(k) returns True in every state after insert(k), whatever is inserted
\* afterwards.
C1_NoFalseNegatives ==
    [][ /\ op'.name = "insert" => FindLoop(vector', op'.key, 1, numHashes')
        /\ (pc = "ready" /\ vector' # vector) =>
             \A k \in Keys(numHashes) :
                 Found(k) => FindLoop(vector', k, 1, numHashes') ]_vars

\* The last call inserted a key, and another key, with a position of its own,
\* is (still) found.
C1_Witness ==
    /\ pc = "ready"
    /\ op.name = "insert"
    /\ \E k \in Keys(numHashes) :
           /\ k # op.key
           /\ Found(k)
           /\ ~(Positions(k, numHashes, len(vector))
                  \subseteq Positions(op.key, numHashes, len(vector)))

\* C2: the counter numBitsSet() returns is the number of positions of the
\* bit vector that hold 1, in every state.
C2_CounterIsPopulation ==
    NumBitsSetValue(inserted) = Cardinality(Ones(vector))

\* The last call inserted a key two of whose hash indices fall on the same
\* position, and other bits are set as well.
C2_Witness ==
    /\ pc = "ready"
    /\ op.name = "insert"
    /\ \E i, j \in 1..numHashes :
           /\ i # j
           /\ BitHash(op.key, i) % len(vector) = BitHash(op.key, j) % len(vector)
    /\ inserted >= 2

\* C3: numBitsSet() never decreases from a state to the next, and never
\* exceeds the length of the bit vector.
C3_MonotonicBounded ==
    /\ [](NumBitsSetValue(inserted) <= len(vector))
    /\ [][NumBitsSetValue(inserted') >= NumBitsSetValue(inserted)]_vars

\* An insert has filled the last free position of a vector of several bits.
C3_Witness ==
    /\ pc = "ready"
    /\ op.name = "insert"
    /\ len(vector) >= 2
    /\ NumBitsSetValue(inserted) = len(vector)

\* C4: insert is idempotent.  From every state and for every key, insert(k)
\* twice in a row gives the bit vector and the counter that insert(k) once
\* gives.
C4_InsertIdempotent ==
    pc = "ready" =>
        \A k \in Keys(numHashes) :
            LET once == InsertLoop(vector, inserted, k, 1, numHashes)
                twice == InsertLoop(once.vector, once.inserted, k, 1, numHashes)
            IN  twice = once

\* A state in which some insert changes the filter, so that its repetition
\* is the second of two calls the first of which did something.
C4_Witness ==
    /\ pc = "ready"
    /\ insertCalls
    /\ \E k \in Keys(numHashes) :
           LET once == InsertLoop(vector, inserted, k, 1, numHashes)
           IN  /\ once.vector # vector
               /\ once.inserted > inserted
               /\ InsertLoop(once.vector, once.inserted, k, 1, numHashes) = once

\* The arguments the constructor was called with are outside the domain the
\* specification allows: numHashes <= 0, numKeys <= 0, or maxFalsePositive
\* not in the open interval (0, 1).
InvalidArgs ==
    /\ pc # "new"
    /\ \/ args[1] <= 0
       \/ args[2] <= 0
       \/ args[3] <= 0
       \/ args[3] >= PDen

\* C5: construction with invalid parameters fails and produces no usable
\* filter.  (The claim also names the error, InvalidParameter; the
\* constructor raises no such error in any case.)
C5_InvalidParametersRejected ==
    InvalidArgs => pc = "raised"

\* C6: a filter on which insert has not been called has numBitsSet() = 0,
\* and find returns False for every key.
C6_FreshFilterEmpty ==
    (pc = "ready" /\ ~insertCalls) =>
        /\ NumBitsSetValue(inserted) = 0
        /\ \A k \in Keys(numHashes) : ~Found(k)
        /\ op.name = "find" => op.ret = FALSE

\* find has returned on a filter on which insert has not been called.
C6_Witness ==
    /\ pc = "ready"
    /\ ~insertCalls
    /\ op.name = "find"
    /\ op.ret = FALSE

\* C7: a call to find changes neither the bit vector nor the counter.
C7_FindNoSideEffects ==
    [][op'.name = "find" => (vector' = vector /\ inserted' = inserted)]_vars

\* find has short-circuited to False on a filter that holds keys, at a
\* hash index after the first.
C7_Witness ==
    /\ pc = "ready"
    /\ insertCalls
    /\ op.name = "find"
    /\ op.ret = FALSE
    /\ vector[BitHash(op.key, 1) % len(vector)] = 1

\* C8: find(key) returns True if and only if every position
\* BitHash(key, i) % N, i in 1..numHashes, holds 1.
C8_FindIffAllSet ==
    op.name = "find" =>
        (op.ret = TRUE <=>
            \A i \in 1..numHashes :
                vector[BitHash(op.key, i) % len(vector)] = 1)

\* find has returned True for a key with two distinct positions.
C8_Witness ==
    /\ pc = "ready"
    /\ op.name = "find"
    /\ op.ret = TRUE
    /\ Cardinality(Positions(op.key, numHashes, len(vector))) >= 2

\* C9: after insert(key) the positions that hold 1 are those that held 1
\* before together with every BitHash(key, i) % N, i in 1..numHashes; the
\* vector keeps its length.
C9_InsertSetsAllPositions ==
    [][op'.name = "insert" =>
          /\ DOMAIN vector' = DOMAIN vector
          /\ Ones(vector') =
                 Ones(vector) \cup Positions(op'.key, numHashes, len(vector))
      ]_vars

\* The last call inserted a key with two distinct positions into a filter
\* that holds other bits as well.
C9_Witness ==
    /\ pc = "ready"
    /\ op.name = "insert"
    /\ Cardinality(Positions(op.key, numHashes, len(vector))) >= 2
    /\ Ones(vector) # Positions(op.key, numHashes, len(vector))

\* C10: falsePositiveRate() returns (numBitsSet() / N)^numHashes, a value
\* in [0, 1].
C10_FalsePositiveRate ==
    pc = "ready" =>
        LET rate == FalsePositiveRateValue(vector, inserted, numHashes)
            expected == <<Pow(NumBitsSetValue(inserted), numHashes),
                          Pow(len(vector), numHashes)>>
        IN  /\ rate[2] > 0
            /\ RatEq(rate, expected)
            /\ RatLeq(<<0, 1>>, rate)
            /\ RatLeq(rate, <<1, 1>>)
            /\ op.name = "falsePositiveRate" => op.ret = rate

\* falsePositiveRate has returned a value strictly between 0 and 1.
C10_Witness ==
    /\ pc = "ready"
    /\ op.name = "falsePositiveRate"
    /\ 0 < inserted
    /\ inserted < len(vector)
    /\ numHashes >= 2
    /\ 0 < op.ret[1]
    /\ op.ret[1] < op.ret[2]

\* The constructor was called with arguments in the domain the specification
\* allows, and returned a filter.
ValidlyConstructed ==
    /\ pc = "ready"
    /\ args[1] >= 1
    /\ args[2] >= 1
    /\ 0 < args[3]
    /\ args[3] < PDen

\* C11: on a filter built from valid parameters no method can raise: the
\* length by which insert and find reduce and falsePositiveRate divides is
\* not 0, and every index insert and find use, for any key and any hash
\* index, is a position of the bit vector.
C11_NoRuntimeErrors ==
    ValidlyConstructed =>
        /\ len(vector) # 0
        /\ \A k \in Keys(numHashes) : \A i \in 1..numHashes :
               /\ 0 <= Hashed(vector, k, i)
               /\ Hashed(vector, k, i) < len(vector)
               /\ Hashed(vector, k, i) \in DOMAIN vector

\* Every method has been called on a validly built filter shorter than the
\* largest hash value, and the last call, a find, returned.
C11_Witness ==
    /\ ValidlyConstructed
    /\ len(vector) <= MaxHash
    /\ insertCalls
    /\ op.name = "find"
    /\ op.ret \in BOOLEAN
    /\ \E i \in 1..numHashes : BitHash(op.key, i) >= len(vector)

C13_LengthAndHashCountPositive ==
    pc = "ready" => (len(vector) >= 1 /\ numHashes >= 1)

\* C14: once the filter is built, no call changes the length of the bit
\* vector, its set of positions, or numHashes.
C14_LengthAndHashCountFixed ==
    [][pc = "ready" =>
          /\ DOMAIN vector' = DOMAIN vector
          /\ len(vector') = len(vector)
          /\ numHashes' = numHashes
      ]_vars

\* After inserts that set bits, and a later call, the filter still has the
\* length and the hash count it was built with.
C14_Witness ==
    /\ pc = "ready"
    /\ inserted >= 2
    /\ op.name = "falsePositiveRate"
    /\ numHashes = args[2]
    /\ len(vector) = bitsNeeded(args[1], args[2], args[3], PDen).value

\* What insert(key) makes of a bit vector and a counter.
AfterInsert(state, key) ==
    InsertLoop(state.vector, state.inserted, key, 1, numHashes)

\* C15: from every state and for all keys k1 and k2, insert(k1) then
\* insert(k2) gives the bit vector and the counter that insert(k2) then
\* insert(k1) gives.  The pairs of keys are tried in the states numBitsSet
\* returns in: numBitsSet can be called in every state of a built filter and
\* changes neither the bit vector nor the counter, so these states hold
\* every bit vector and counter the filter can reach.
C15_InsertCommutes ==
    (pc = "ready" /\ op.name = "numBitsSet") =>
        LET now == [vector |-> vector, inserted |-> inserted] IN
        \A k1, k2 \in Keys(numHashes) :
            AfterInsert(AfterInsert(now, k1), k2)
                = AfterInsert(AfterInsert(now, k2), k1)

\* A state of a filter that holds keys, from which two keys that share a
\* position and each have one of their own can be inserted in either order,
\* both orders changing the filter.
C15_Witness ==
    /\ pc = "ready"
    /\ insertCalls
    /\ op.name = "numBitsSet"
    /\ LET now == [vector |-> vector, inserted |-> inserted]
           N == len(vector)
       IN  \E k1, k2 \in Keys(numHashes) :
               /\ Positions(k1, numHashes, N) \cap Positions(k2, numHashes, N) # {}
               /\ Positions(k1, numHashes, N) \ Positions(k2, numHashes, N) # {}
               /\ Positions(k2, numHashes, N) \ Positions(k1, numHashes, N) # {}
               /\ AfterInsert(now, k1) # AfterInsert(now, k2)
               /\ AfterInsert(AfterInsert(now, k1), k2) # AfterInsert(now, k1)
               /\ AfterInsert(AfterInsert(now, k2), k1) # AfterInsert(now, k2)
               /\ AfterInsert(AfterInsert(now, k1), k2)
                      = AfterInsert(AfterInsert(now, k2), k1)

\* C16: a call to falsePositiveRate or numBitsSet changes neither the bit
\* vector nor the counter (nor numHashes), so that every later find,
\* falsePositiveRate and numBitsSet returns what it would have returned
\* without the call.
C16_DiagnosticsReadOnly ==
    [][op'.name \in {"falsePositiveRate", "numBitsSet"} =>
          /\ vector' = vector
          /\ inserted' = inserted
          /\ numHashes' = numHashes
          /\ \A k \in Keys(numHashes) :
                 FindLoop(vector', k, 1, numHashes') = Found(k)
          /\ FalsePositiveRateValue(vector', inserted', numHashes')
                 = FalsePositiveRateValue(vector, inserted, numHashes)
          /\ NumBitsSetValue(inserted') = NumBitsSetValue(inserted)
      ]_vars

\* falsePositiveRate has returned on a filter that is neither empty nor
\* full.
C16_Witness ==
    /\ pc = "ready"
    /\ op.name = "falsePositiveRate"
    /\ 0 < inserted
    /\ inserted < len(vector)
    /\ op.ret = FalsePositiveRateValue(vector, inserted, numHashes)

\* The smaller of two numbers.
Min(a, b) == IF a <= b THEN a ELSE b

\* C18: an insert raises numBitsSet() by the number of distinct positions of
\* its key that held 0 before the call, which is between 0 and numHashes;
\* and after m inserts on a fresh filter numBitsSet() is at most
\* min(N, m * numHashes), for every m the count of calls is exact for.
C18_InsertIncrement ==
    /\ []((pc = "ready" /\ inserts < MaxInserts) =>
             NumBitsSetValue(inserted) <= Min(len(vector), inserts * numHashes))
    /\ [][op'.name = "insert" =>
             LET new == Positions(op'.key, numHashes, len(vector)) \ Ones(vector)
                 rise == NumBitsSetValue(inserted') - NumBitsSetValue(inserted)
             IN  /\ rise = Cardinality(new)
                 /\ 0 <= rise
                 /\ rise <= numHashes
       ]_vars

\* The second insert on a fresh filter had a key with two hash indices on
\* the same position and set that one position; m * numHashes is below N.
C18_Witness ==
    /\ pc = "ready"
    /\ inserts = 2
    /\ op.name = "insert"
    /\ numHashes >= 2
    /\ Cardinality(Positions(op.key, numHashes, len(vector))) = 1
    /\ inserted = numHashes + 1
    /\ inserts * numHashes <= len(vector)

(***************************************************************************)
(* C17: saturation and the empty filter.                                   *)
(***************************************************************************)

\* C17 as stated: where numBitsSet() = N, find returns True for every key and
\* falsePositiveRate returns exactly 1; falsePositiveRate returns 0 exactly
\* when no bit is set (if no bit is set, and only then).
C17_SaturationAndZeroExactly ==
    /\ pc = "ready" =>
           LET N == len(vector)
               rate == FalsePositiveRateValue(vector, inserted, numHashes)
               class == FloatRateClass(N, inserted, numHashes)
           IN  /\ NumBitsSetValue(inserted) = N =>
                      /\ \A key \in Keys(numHashes) : Found(key)
                      /\ RatEq(rate, <<1, 1>>)
                      /\ class = "one"
               /\ RatEq(rate, <<0, 1>>) <=> NumBitsSetValue(inserted) = 0
               /\ class = "zero" <=> NumBitsSetValue(inserted) = 0
    /\ pc = "big" =>
           /\ big.inserted = big.len => big.ret = "one"
           /\ big.ret = "zero" <=> big.inserted = 0

\* C17, amended: where numBitsSet() = N, find returns True for every key and
\* falsePositiveRate returns exactly 1; where no bit is set falsePositiveRate
\* returns 0.  (It also returns 0 with bits set, where the power underflows.)
C17_SaturationAndZero ==
    /\ pc = "ready" =>
           LET N == len(vector)
               rate == FalsePositiveRateValue(vector, inserted, numHashes)
               class == FloatRateClass(N, inserted, numHashes)
           IN  /\ NumBitsSetValue(inserted) = N =>
                      /\ \A key \in Keys(numHashes) : Found(key)
                      /\ RatEq(rate, <<1, 1>>)
                      /\ class = "one"
               /\ NumBitsSetValue(inserted) = 0 =>
                      /\ RatEq(rate, <<0, 1>>)
                      /\ class = "zero"
    /\ pc = "big" =>
           /\ big.inserted = big.len => big.ret = "one"
           /\ big.inserted = 0 => big.ret = "zero"

\* A saturated filter of several bits on which find has just returned True,
\* after inserts.
C17_Witness ==
    /\ pc = "ready"
    /\ len(vector) >= 2
    /\ NumBitsSetValue(inserted) = len(vector)
    /\ insertCalls
    /\ op.name = "find"
    /\ op.ret = TRUE

====
